---- MODULE Spec2Model ----
(***************************************************************************)
(* CurrencyPal: the intent classifier process_message (src/main.py) and    *)
(* the Rate Client convert_currency / get_rates_to_naira                   *)
(* (src/utils/currency_api.py), modelled as a state machine.               *)
(*                                                                         *)
(* Texts are TLA+ strings, read character by character with SubSeq.        *)
(* Numbers are exact rationals [n, d] (d > 0): an amount typed by the user *)
(* or a rate sent by the upstream service is a decimal, and Python's       *)
(* round() and the "f" format round the exact value half to even.  The     *)
(* literals are kept in ASCII: an emoji or a currency sign outside ASCII   *)
(* is written as its name in angle brackets, a bullet as "-".              *)
(***************************************************************************)
EXTENDS Integers, Sequences, FiniteSets, TLC

VARIABLES pc, entry, text, call, requests, calls, outcome, result, reply, prev, tasks,
          a2a, hook

\* one call at a time: the position and the local variables of the call
callVars == <<pc, entry, text, call, requests, calls, outcome, result, reply, prev>>

\* the A2A endpoint: the handler a2a_agent and its background webhook task
a2aVars == <<a2a, hook>>

vars == <<callVars, tasks, a2aVars>>

(***************************************************************************)
(* Characters                                                              *)
(***************************************************************************)
Ch(s, i) == IF i >= 1 /\ i <= Len(s) THEN SubSeq(s, i, i) ELSE ""

Digits == <<"0", "1", "2", "3", "4", "5", "6", "7", "8", "9">>

LowerLetters == <<"a", "b", "c", "d", "e", "f", "g", "h", "i", "j", "k", "l", "m",
                  "n", "o", "p", "q", "r", "s", "t", "u", "v", "w", "x", "y", "z">>

UpperLetters == <<"A", "B", "C", "D", "E", "F", "G", "H", "I", "J", "K", "L", "M",
                  "N", "O", "P", "Q", "R", "S", "T", "U", "V", "W", "X", "Y", "Z">>

Range(f) == {f[i] : i \in DOMAIN f}

IsDigit(c) == c \in Range(Digits)

IsLetter(c) == c \in Range(LowerLetters) \cup Range(UpperLetters)

IsSpace(c) == c \in {" ", "\t", "\n"}

IsWordChar(c) == IsDigit(c) \/ IsLetter(c) \/ c = "_"

IndexIn(seq, c) == CHOOSE i \in DOMAIN seq : seq[i] = c

LowerChar(c) == IF c \in Range(UpperLetters) THEN LowerLetters[IndexIn(UpperLetters, c)] ELSE c

UpperChar(c) == IF c \in Range(LowerLetters) THEN UpperLetters[IndexIn(LowerLetters, c)] ELSE c

RECURSIVE Lower(_)
Lower(s) == IF s = "" THEN "" ELSE LowerChar(Ch(s, 1)) \o Lower(SubSeq(s, 2, Len(s)))

RECURSIVE Upper(_)
Upper(s) == IF s = "" THEN "" ELSE UpperChar(Ch(s, 1)) \o Upper(SubSeq(s, 2, Len(s)))

RECURSIVE Strip(_)
Strip(s) ==
    IF s = "" THEN ""
    ELSE IF IsSpace(Ch(s, 1)) THEN Strip(SubSeq(s, 2, Len(s)))
    ELSE IF IsSpace(Ch(s, Len(s))) THEN Strip(SubSeq(s, 1, Len(s) - 1))
    ELSE s

Contains(s, lit) == \E i \in 1..(Len(s) - Len(lit) + 1) : SubSeq(s, i, i + Len(lit) - 1) = lit

(***************************************************************************)
(* Numbers: exact rationals, Python's float(), round() and format()        *)
(***************************************************************************)
RECURSIVE GCD(_, _)
GCD(a, b) == IF b = 0 THEN a ELSE GCD(b, a % b)

RECURSIVE Pow10(_)
Pow10(k) == IF k = 0 THEN 1 ELSE 10 * Pow10(k - 1)

Rat(n, d) == LET g == GCD(n, d) IN [n |-> n \div g, d |-> d \div g]

RatMul(x, y) == Rat(x.n * y.n, x.d * y.d)

RatInv(x) == Rat(x.d, x.n)

DigitVal(c) == IndexIn(Digits, c) - 1

RECURSIVE DigitsToInt(_)
DigitsToInt(s) ==
    IF s = "" THEN 0 ELSE 10 * DigitsToInt(SubSeq(s, 1, Len(s) - 1)) + DigitVal(Ch(s, Len(s)))

RECURSIVE Replace(_, _, _)
Replace(s, a, b) ==
    IF s = "" THEN ""
    ELSE (IF Ch(s, 1) = a THEN b ELSE Ch(s, 1)) \o Replace(SubSeq(s, 2, Len(s)), a, b)

\* float(s) for s of the form digits or digits "." digits
ParseFloat(s) ==
    IF \E i \in 1..Len(s) : Ch(s, i) = "."
    THEN LET p == CHOOSE i \in 1..Len(s) : Ch(s, i) = "."
         IN  Rat(DigitsToInt(SubSeq(s, 1, p - 1)) * Pow10(Len(s) - p)
                   + DigitsToInt(SubSeq(s, p + 1, Len(s))),
                 Pow10(Len(s) - p))
    ELSE Rat(DigitsToInt(s), 1)

\* the integer nearest to num / den, a tie going to the even one
RoundHalfEven(num, den) ==
    LET q == num \div den
        r == num % den
    IN  IF 2 * r < den THEN q
        ELSE IF 2 * r > den THEN q + 1
        ELSE IF q % 2 = 0 THEN q ELSE q + 1

\* x rounded to k decimals, in units of 10^-k
RoundUnits(x, k) ==
    LET g == GCD(Pow10(k), x.d)
    IN  RoundHalfEven(x.n * (Pow10(k) \div g), x.d \div g)

\* round(x, k)
Round(x, k) == Rat(RoundUnits(x, k), Pow10(k))

RECURSIVE IntStr(_)
IntStr(n) == IF n < 10 THEN Digits[n + 1] ELSE IntStr(n \div 10) \o Digits[(n % 10) + 1]

RECURSIVE ZeroPad(_, _)
ZeroPad(s, k) == IF Len(s) >= k THEN s ELSE ZeroPad("0" \o s, k)

RECURSIVE Commas(_)
Commas(n) ==
    IF n < 1000 THEN IntStr(n)
    ELSE Commas(n \div 1000) \o "," \o ZeroPad(IntStr(n % 1000), 3)

\* f"{x:,.kf}" for k > 0
FormatFixed(x, k) ==
    LET u == RoundUnits(x, k)
    IN  Commas(u \div Pow10(k)) \o "." \o ZeroPad(IntStr(u % Pow10(k)), k)

RECURSIVE RStrip(_, _)
RStrip(s, c) ==
    IF s # "" /\ Ch(s, Len(s)) = c THEN RStrip(SubSeq(s, 1, Len(s) - 1), c) ELSE s

\* str(x) of a float that is a decimal with at most 4 fraction digits
FloatRepr(x) ==
    LET k == CHOOSE j \in 0..9 : Pow10(j) % x.d = 0
        u == x.n * (Pow10(k) \div x.d)
    IN  IntStr(u \div Pow10(k)) \o "." \o
        (IF k = 0 THEN "0" ELSE ZeroPad(IntStr(u % Pow10(k)), k))

(***************************************************************************)
(* The upstream rate service: what one GET can end in                      *)
(*   [kind |-> "ConnectTimeout"], [kind |-> "ReadTimeout"],                *)
(*   [kind |-> "RequestError", msg |-> str(e)],                            *)
(*   [kind |-> "Response", status |-> code, body |-> JSON value]           *)
(* and the JSON value response.json() parses, [t |-> "invalid"] when the   *)
(* body is not JSON (json() raises a ValueError).                          *)
(***************************************************************************)
JNull == [t |-> "null"]

JNum(n, d) == [t |-> "num", v |-> Rat(n, d)]

JStr(s) == [t |-> "str", v |-> s]

JList(q) == [t |-> "list", v |-> q]

JMap(f) == [t |-> "map", v |-> f]

JInvalid == [t |-> "invalid"]

\* key in j  raises TypeError
InRaises(j) == j.t \in {"null", "num"}

\* key in j
InHolds(key, j) ==
    CASE j.t = "map" -> key \in DOMAIN j.v
      [] j.t = "list" -> \E i \in DOMAIN j.v : j.v[i] = JStr(key)
      [] j.t = "str" -> Contains(j.v, key)
      [] OTHER -> FALSE

\* j[key] with a string key raises TypeError
SubscriptRaises(j) == j.t # "map"

Return(v) == [kind |-> "return", value |-> v]

Raise(e) == [kind |-> "raise", exc |-> e]

IsSuccessStatus(status) == status >= 200 /\ status <= 299

(***************************************************************************)
(* src/utils/currency_api.py                                               *)
(***************************************************************************)
CURRENCY_SYMBOLS ==
    [USD |-> "$", EUR |-> "<euro>", GBP |-> "<pound>", JPY |-> "<yen>", CNY |-> "<yen>",
     NGN |-> "<naira>", CAD |-> "C$", AUD |-> "A$", CHF |-> "Fr", INR |-> "<rupee>",
     KRW |-> "<won>", BRL |-> "R$", ZAR |-> "R", RUB |-> "<ruble>", MXN |-> "$",
     SGD |-> "S$", HKD |-> "HK$", SEK |-> "kr", NOK |-> "kr", DKK |-> "kr",
     PLN |-> "zl", TRY |-> "<lira>", THB |-> "<baht>", IDR |-> "Rp", MYR |-> "RM",
     PHP |-> "<peso>", AED |-> "<dirham>", SAR |-> "<riyal>", EGP |-> "E<pound>", ILS |-> "<shekel>"]

get_currency_symbol(currency_code) ==
    IF Upper(currency_code) \in DOMAIN CURRENCY_SYMBOLS
    THEN CURRENCY_SYMBOLS[Upper(currency_code)]
    ELSE Upper(currency_code)

format_amount(amount, currency_code) ==
    get_currency_symbol(currency_code) \o FormatFixed(amount, 2)

\* a client that does not call response.raise_for_status()
RequestFailedNoStatusCheck(out) ==
    \/ out.kind \in {"ConnectTimeout", "ReadTimeout", "RequestError"}
    \/ out.kind = "Response" /\ out.body = JInvalid

\* the try block of both operations ends in one of its except clauses
RequestFailed(out) ==
    \/ out.kind \in {"ConnectTimeout", "ReadTimeout", "RequestError"}
    \/ out.kind = "Response" /\ (~IsSuccessStatus(out.status) \/ out.body = JInvalid)

\* the error text of the except clause that caught the failure
RequestErrorText(out) ==
    CASE out.kind = "ConnectTimeout" ->
           "Connection timed out. The exchange rate service is not responding."
      [] out.kind = "ReadTimeout" ->
           "Request timed out. The exchange rate service took too long to respond."
      [] out.kind = "Response" /\ ~IsSuccessStatus(out.status) ->
           "HTTP error " \o IntStr(out.status) \o ": Unable to fetch exchange rates."
      [] out.kind = "RequestError" -> "Network error: " \o out.msg
      [] OTHER ->
           "An unexpected error occurred: Expecting value: line 1 column 1 (char 0)"

\* a result with the rate rounded as the converted amount is, to 2 decimals
ConversionResultRate2(from_curr, to_curr, amount, rate) ==
    LET res == RatMul(amount, rate)
    IN  Return([from |-> from_curr, to |-> to_curr, amount |-> amount,
                rate |-> Round(rate, 2), converted |-> Round(res, 2),
                formatted_amount |-> format_amount(amount, from_curr),
                formatted_converted |-> format_amount(res, to_curr),
                message |-> ""])

\* convert_currency from the rate it read to its return
ConversionResult(from_curr, to_curr, amount, rate) ==
    LET res == RatMul(amount, rate)
        formatted_from_amount == format_amount(amount, from_curr)
        formatted_to_amount == format_amount(res, to_curr)
        formatted_rate == RStrip(RStrip(FormatFixed(rate, 4), "0"), ".")
    IN  Return([from |-> from_curr,
                to |-> to_curr,
                amount |-> amount,
                rate |-> Round(rate, 4),
                converted |-> Round(res, 2),
                formatted_amount |-> formatted_from_amount,
                formatted_converted |-> formatted_to_amount,
                message |-> formatted_from_amount \o " = " \o formatted_to_amount
                            \o " <exchange> (Rate: 1 " \o from_curr \o " = " \o formatted_rate
                            \o " " \o to_curr \o ")"])

\* a lookup that does not test the target code before it reads data["rates"][to_curr]
ConvertLookupUnchecked(from_curr, to_curr, amount, rates) ==
    IF rates.t # "map" THEN Raise("TypeError")
    ELSE IF to_curr \notin DOMAIN rates.v THEN Raise("KeyError")
    ELSE IF rates.v[to_curr].t # "num" THEN Raise("TypeError")
    ELSE ConversionResult(from_curr, to_curr, amount, rates.v[to_curr].v)

\* convert_currency from the test of the target code on: rates is data["rates"]
ConvertLookup(from_curr, to_curr, amount, rates) ==
    IF InRaises(rates) THEN Raise("TypeError")
    ELSE IF ~InHolds(to_curr, rates)
    THEN Return([error |-> "Currency " \o to_curr
                            \o " not found. Please check the currency code."])
    ELSE IF SubscriptRaises(rates) THEN Raise("TypeError")
    ELSE IF rates.v[to_curr].t # "num" THEN Raise("TypeError")
    ELSE ConversionResult(from_curr, to_curr, amount, rates.v[to_curr].v)

convert_currency(from_currency, to_currency, amount, out) ==
    LET from_curr == Upper(from_currency)
        to_curr == Upper(to_currency)
        data == out.body
    IN  IF RequestFailed(out) THEN Return([error |-> RequestErrorText(out)])
        ELSE IF InRaises(data) THEN Raise("TypeError")
        ELSE IF ~InHolds("rates", data)
        THEN Return([error |-> "Invalid response from exchange rate service for " \o from_curr])
        ELSE IF SubscriptRaises(data) THEN Raise("TypeError")
        ELSE ConvertLookup(from_curr, to_curr, amount, data.v["rates"])

\* a Python dict with string keys: the keys in insertion order and the entries
Dict(keys, ent) == [keys |-> keys, ent |-> ent]

EmptyDict == Dict(<<>>, <<>>)

HasKey(dict, k) == k \in DOMAIN dict.ent

\* dict[k] = v
DictSet(dict, k, v) ==
    Dict(IF HasKey(dict, k) THEN dict.keys ELSE Append(dict.keys, k),
         [x \in DOMAIN dict.ent \cup {k} |-> IF x = k THEN v ELSE dict.ent[x]])

None == [t |-> "None"]

\* a default list without the euro
DefaultCurrenciesNoEuro == <<"USD", "GBP", "JPY", "CAD">>

DefaultCurrencies == <<"USD", "EUR", "GBP", "JPY", "CAD">>

\* a rate that is not inverted
NairaRateAsQuoted(upstream_rate) == upstream_rate

\* 1 / rates[cur_upper]: the upstream table quotes 1 NGN in the currency
NairaRate(upstream_rate) == RatInv(upstream_rate)

\* the for loop of get_rates_to_naira from the i-th currency on
RECURSIVE RatesLoop(_, _, _, _)
RatesLoop(currencies, rates, i, res) ==
    IF i > Len(currencies) THEN Return(res)
    ELSE LET cur_upper == Upper(currencies[i])
         IN  IF InRaises(rates) THEN Raise("TypeError")
             ELSE IF ~InHolds(cur_upper, rates) THEN RatesLoop(currencies, rates, i + 1, res)
             ELSE IF SubscriptRaises(rates) THEN Raise("TypeError")
             ELSE IF rates.v[cur_upper].t # "num" THEN Raise("TypeError")
             ELSE IF rates.v[cur_upper].v.n = 0 THEN RatesLoop(currencies, rates, i + 1, res)
             ELSE LET rate == NairaRate(rates.v[cur_upper].v)
                  IN  IF rate.n # 0
                      THEN RatesLoop(currencies, rates, i + 1,
                             DictSet(res, cur_upper,
                               [rate |-> Round(rate, 2),
                                formatted |-> get_currency_symbol(cur_upper) \o "1 = "
                                    \o get_currency_symbol("NGN") \o FormatFixed(rate, 2)]))
                      ELSE RatesLoop(currencies, rates, i + 1, res)

get_rates_to_naira(currencies_arg, out) ==
    LET currencies == IF currencies_arg = None THEN DefaultCurrencies ELSE currencies_arg.v
        data == out.body
    IN  IF RequestFailed(out) THEN Return(Dict(<<"error">>, [error |-> RequestErrorText(out)]))
        ELSE IF InRaises(data) THEN Raise("TypeError")
        ELSE IF ~InHolds("rates", data)
        THEN Return(Dict(<<"error">>, [error |-> "Failed to fetch rates from exchange service"]))
        ELSE IF data.t # "map" THEN Raise("AttributeError")
        ELSE RatesLoop(currencies, data.v["rates"], 1, EmptyDict)

(***************************************************************************)
(* Regular expressions of src/main.py, matched as re.search matches them.  *)
(* A position p is the index of the next character to read, 1..Len(s)+1;   *)
(* a failed match is position 0.                                           *)
(***************************************************************************)
\* \b at p
Boundary(s, p) == IsWordChar(Ch(s, p - 1)) # IsWordChar(Ch(s, p))

LitAt(s, p, lit) == p >= 1 /\ p + Len(lit) - 1 <= Len(s) /\ SubSeq(s, p, p + Len(lit) - 1) = lit

\* the end of the longest run of digits / of white space from p
RECURSIVE DigitRunEnd(_, _)
DigitRunEnd(s, p) == IF IsDigit(Ch(s, p)) THEN DigitRunEnd(s, p + 1) ELSE p

RECURSIVE SpaceRunEnd(_, _)
SpaceRunEnd(s, p) == IF IsSpace(Ch(s, p)) THEN SpaceRunEnd(s, p + 1) ELSE p

\* the leftmost position at which Ok holds, 0 when there is none
Leftmost(s, Ok(_)) ==
    LET found == {p \in 1..Len(s) : Ok(p)}
    IN  IF found = {} THEN 0 ELSE CHOOSE p \in found : \A q \in found : p <= q

NoMatch == [ok |-> FALSE]

\* re.search: the match At gives at the leftmost position where it gives one
FirstMatch(s, At(_)) ==
    LET found == {p \in 1..Len(s) : At(p).ok}
    IN  IF found = {} THEN NoMatch ELSE At(CHOOSE p \in found : \A q \in found : p <= q)

\* \b(lit)\b somewhere in s
WordIn(s, lit) == \E p \in 1..Len(s) : Boundary(s, p) /\ LitAt(s, p, lit) /\ Boundary(s, p + Len(lit))

AnyWordIn(s, lits) == \E lit \in lits : WordIn(s, lit)

\* \bgood\s*(morning|afternoon|evening)\b somewhere in s
GoodDaytimeIn(s) ==
    \E p \in 1..Len(s) : \E w \in {"morning", "afternoon", "evening"} :
        /\ Boundary(s, p) /\ LitAt(s, p, "good")
        /\ LitAt(s, SpaceRunEnd(s, p + 4), w)
        /\ Boundary(s, SpaceRunEnd(s, p + 4) + Len(w))

greeting_patterns(s) ==
    AnyWordIn(s, {"hi", "hello", "hey", "greetings", "howdy", "sup", "yo"}) \/ GoodDaytimeIn(s)

help_patterns(s) ==
    AnyWordIn(s, {"help", "assist", "what can you do", "commands", "how to use", "guide",
                  "instructions", "info", "about"})

thanks_patterns(s) == AnyWordIn(s, {"thanks", "thank you", "thx", "appreciate", "cheers"})

\* (\d+(?:[.,]\d+)?) at p when \s+ follows it: the end of the amount, which is
\* the whole run of digits, or the run, a separator and a second whole run
AmountEnd(s, p) ==
    LET Ends(e1, e2) ==
            IF e1 = p THEN 0
            ELSE IF IsSpace(Ch(s, e1)) THEN e1
            ELSE IF Ch(s, e1) \in {".", ","} /\ e2 > e1 + 1 /\ IsSpace(Ch(s, e2)) THEN e2
            ELSE 0
        FirstRun(e1) == Ends(e1, DigitRunEnd(s, e1 + 1))
    IN  FirstRun(DigitRunEnd(s, p))

\* [a-zA-Z]{3} at p
Letters3At(s, p) == IsLetter(Ch(s, p)) /\ IsLetter(Ch(s, p + 1)) /\ IsLetter(Ch(s, p + 2))

\* (\d+(?:[.,]\d+)?)\s+([a-zA-Z]{3}) at p: the groups and the end of the match
AmountCodeAt(s, p) ==
    LET Code(e, q) ==
            IF e # 0 /\ Letters3At(s, q)
            THEN [ok |-> TRUE, groups |-> <<SubSeq(s, p, e - 1), SubSeq(s, q, q + 2)>>,
                  end |-> q + 3]
            ELSE NoMatch
        Amount(e) == Code(e, SpaceRunEnd(s, e))
    IN  Amount(AmountEnd(s, p))

\* (\d+(?:[.,]\d+)?)\s+([a-zA-Z]{3})\s+(?:sep)\s+([a-zA-Z]{3}) at p, sep one of seps
AmountCodeSepCodeAt(s, p, seps) ==
    LET Target(m, r, t) ==
            IF m.ok /\ r > m.end /\ (\E sep \in seps : LitAt(s, r, sep)) /\ t > r + 2
               /\ Letters3At(s, t)
            THEN [ok |-> TRUE, groups |-> Append(m.groups, SubSeq(s, t, t + 2))]
            ELSE NoMatch
        Sep(m, r) == Target(m, r, SpaceRunEnd(s, r + 2))
        Source(m) == Sep(m, SpaceRunEnd(s, m.end))
    IN  Source(AmountCodeAt(s, p))

\* word1\s+word2\s+...\s+ at p: the end of the match
RECURSIVE WordsEnd(_, _, _)
WordsEnd(s, p, words) ==
    IF words = <<>> THEN p
    ELSE IF LitAt(s, p, Head(words)) /\ IsSpace(Ch(s, p + Len(Head(words))))
    THEN WordsEnd(s, SpaceRunEnd(s, p + Len(Head(words))), Tail(words))
    ELSE 0

\* re.search of  words \s+ amount \s+ code \s+ sep \s+ code
ConversionSearch(s, words, seps) ==
    LET After(e) == IF e = 0 THEN NoMatch ELSE AmountCodeSepCodeAt(s, e, seps)
    IN  FirstMatch(s, LAMBDA p : After(WordsEnd(s, p, words)))

\* the four conversion patterns, the next one tried when the one before found nothing
ConversionPatterns ==
    << [words |-> <<"convert">>, seps |-> {"to"}],
       [words |-> <<"how", "much", "is">>, seps |-> {"in"}],
       [words |-> <<"what", "is">>, seps |-> {"in", "to"}],
       [words |-> <<>>, seps |-> {"to", "in"}] >>

PatternSearch(s, k) == ConversionSearch(s, ConversionPatterns[k].words, ConversionPatterns[k].seps)

RECURSIVE conversion_match_from(_, _)
conversion_match_from(s, k) ==
    IF k > Len(ConversionPatterns) THEN NoMatch
    ELSE LET Try(m) == IF m.ok THEN m ELSE conversion_match_from(s, k + 1)
         IN  Try(PatternSearch(s, k))

conversion_match(s) == conversion_match_from(s, 1)

\* "." does not match a line break
NoLineBreak(s, a, b) == \A i \in a..(b - 1) : Ch(s, i) # "\n"

\* .*?(\d+(?:[.,]\d+)?)\s+([a-zA-Z]{3}) from position a: the nearest amount
AmountCodeAfter(s, a) ==
    FirstMatch(s, LAMBDA q : IF q >= a /\ NoLineBreak(s, a, q) THEN AmountCodeAt(s, q)
                             ELSE NoMatch)

\* convert(?:ing)?.*?(\d+(?:[.,]\d+)?)\s+([a-zA-Z]{3}) at c: "ing" is taken when the
\* rest then matches, and left to .*? otherwise
ConvertAmountCodeAt(s, c) ==
    LET Longest(withIng, without) ==
            IF ~LitAt(s, c, "convert") THEN NoMatch
            ELSE IF LitAt(s, c + 7, "ing") /\ withIng.ok THEN withIng
            ELSE without
    IN  Longest(AmountCodeAfter(s, c + 10), AmountCodeAfter(s, c + 7))

\* (?:help|need|want).*?convert(?:ing)?.*?(\d+(?:[.,]\d+)?)\s+([a-zA-Z]{3})
HelpConvertAt(s, i) ==
    IF \E w \in {"help", "need", "want"} : LitAt(s, i, w)
    THEN FirstMatch(s, LAMBDA c : IF c >= i + 4 /\ NoLineBreak(s, i + 4, c)
                                  THEN ConvertAmountCodeAt(s, c)
                                  ELSE NoMatch)
    ELSE NoMatch

help_convert_match(s) == FirstMatch(s, LAMBDA i : HelpConvertAt(s, i))

\* \b([a-zA-Z]{3})\s+(?:rate|to\s+ngn) at p
CodeRateAt(s, p) ==
    LET r == SpaceRunEnd(s, p + 3)
    IN  /\ Boundary(s, p) /\ Letters3At(s, p) /\ r > p + 3
        /\ \/ LitAt(s, r, "rate")
           \/ LitAt(s, r, "to") /\ SpaceRunEnd(s, r + 2) > r + 2
                /\ LitAt(s, SpaceRunEnd(s, r + 2), "ngn")

\* (?:rate|price)\s+(?:of|for)\s+([a-zA-Z]{3}) at p: the position of the code, or 0
RateOfCodeAt(s, p) ==
    LET Code(a, b, c, d) ==
            IF a # 0 /\ b > a /\ c # 0 /\ d > c /\ Letters3At(s, d) THEN d ELSE 0
        Prep(a, b, c) == Code(a, b, c, SpaceRunEnd(s, c))
        Gap(a, b) ==
            Prep(a, b, IF LitAt(s, b, "of") THEN b + 2
                       ELSE IF LitAt(s, b, "for") THEN b + 3 ELSE 0)
        Noun(a) == Gap(a, SpaceRunEnd(s, a))
    IN  Noun(IF LitAt(s, p, "rate") THEN p + 4 ELSE IF LitAt(s, p, "price") THEN p + 5 ELSE 0)

single_rate_match(s) ==
    LET Code(d) == [ok |-> TRUE, groups |-> <<SubSeq(s, d, d + 2)>>]
        Either(p1, m2) == IF p1 # 0 THEN Code(p1) ELSE m2
    IN  Either(Leftmost(s, LAMBDA p : CodeRateAt(s, p)),
               FirstMatch(s, LAMBDA p : LET Found(d) == IF d # 0 THEN Code(d) ELSE NoMatch
                                        IN  Found(RateOfCodeAt(s, p))))

\* \b(rate|rates|exchange)\b and \b(ngn|naira|show|all|list)\b
multiple_rates_match(s) ==
    AnyWordIn(s, {"rate", "rates", "exchange"}) /\ AnyWordIn(s, {"ngn", "naira", "show", "all", "list"})

\* \b([a-zA-Z]{3})\b somewhere in s
ThreeLetterWordIn(s) ==
    \E p \in 1..Len(s) : Boundary(s, p) /\ Letters3At(s, p) /\ Boundary(s, p + 3)

\* \b(rates?|exchange)\b and no \b([a-zA-Z]{3})\b
general_rate_match(s) == AnyWordIn(s, {"rate", "rates", "exchange"}) /\ ~ThreeLetterWordIn(s)

(***************************************************************************)
(* src/main.py: process_message                                            *)
(***************************************************************************)
EmptyInputText ==
    "Please say something! <smile> Try 'convert 10 USD to NGN' or 'help' to see what I can do."

GreetingText ==
    "Hello! <wave> I'm CurrencyPal, your friendly currency conversion assistant! <exchange>\n\n"
    \o "I can help you:\n"
    \o "- Convert currencies: 'convert 100 USD to NGN'\n"
    \o "- Check rates: 'show rates to NGN' or 'USD rate'\n"
    \o "- Get help: 'help' or 'what can you do'\n\n"
    \o "What would you like to know?"

HelpText ==
    "<star> CurrencyPal Help Guide <star>\n\n"
    \o "Here's what I can do:\n\n"
    \o "<exchange> **Currency Conversion:**\n"
    \o "- 'convert 50 USD to NGN'\n"
    \o "- 'how much is 100 EUR in GBP'\n"
    \o "- 'what is 25.50 CAD in NGN'\n"
    \o "- Just type: '100 USD to NGN'\n\n"
    \o "<chart> **Exchange Rates:**\n"
    \o "- 'show rates to NGN' (multiple currencies)\n"
    \o "- 'USD rate' or 'EUR to NGN rate' (single currency)\n"
    \o "- 'rates' (default: USD, EUR, GBP, JPY, CAD)\n\n"
    \o "<speech> **Other:**\n"
    \o "- Say 'hi' for a greeting\n"
    \o "- Say 'help' to see this message\n\n"
    \o "I support 160+ currencies with real-time rates! <globe>"

ThanksText ==
    "You're very welcome! <smile> Happy to help with currency conversions anytime! <exchange>\n"
    \o "Need anything else? Just ask!"

FallbackText ==
    "Hmm, I'm not sure I understood that. <thinking>\n\n"
    \o "Here's what I can help with:\n"
    \o "- **Convert currency:** 'convert 50 USD to NGN' or just '50 USD to NGN'\n"
    \o "- **Check rates:** 'USD rate' or 'show rates to NGN'\n"
    \o "- **Get help:** Type 'help'\n\n"
    \o "What would you like to do?"

PleaseCheckText ==
    "Please check:\n"
    \o "- Currency codes are valid (e.g., USD, EUR, NGN)\n"
    \o "- The amount is a positive number\n\n"

NoCall(branch, txt) == [branch |-> branch, op |-> "none", reply |-> txt]

\* a comma read as a thousands separator
ParseAmountThousands(amount_str) == ParseFloat(Replace(amount_str, ",", ""))

\* the digits after a comma dropped
ParseAmountWholePart(amount_str) ==
    ParseFloat(IF Contains(amount_str, ",")
               THEN SubSeq(amount_str, 1, (CHOOSE i \in 1..Len(amount_str) : Ch(amount_str, i) = ",") - 1)
               ELSE amount_str)

\* float(amount_str.replace(',', '.'))
ParseAmount(amount_str) == ParseFloat(Replace(amount_str, ",", "."))

\* the multiple-rates rule tried before the single-rate rule
DispatchRatesMultipleFirst(user_text_lower) ==
    LET Single(currency) ==
            [branch |-> "single_rate", op |-> "get_rates_to_naira", currency |-> currency,
             currencies |-> [t |-> "list", v |-> <<currency>>]]
        Rule(sm) ==
            IF multiple_rates_match(user_text_lower)
            THEN [branch |-> "multiple_rates", op |-> "get_rates_to_naira", currencies |-> None]
            ELSE IF sm.ok THEN Single(Upper(sm.groups[1]))
            ELSE IF general_rate_match(user_text_lower)
            THEN [branch |-> "general_rates", op |-> "get_rates_to_naira", currencies |-> None]
            ELSE NoCall("fallback", FallbackText)
    IN  Rule(single_rate_match(user_text_lower))

\* the code of the single-rate rule passed on as it was matched
DispatchRatesCodeAsMatched(user_text_lower) ==
    LET Single(currency) ==
            [branch |-> "single_rate", op |-> "get_rates_to_naira", currency |-> currency,
             currencies |-> [t |-> "list", v |-> <<currency>>]]
        Rule(sm) ==
            IF sm.ok THEN Single(sm.groups[1])
            ELSE IF multiple_rates_match(user_text_lower)
            THEN [branch |-> "multiple_rates", op |-> "get_rates_to_naira", currencies |-> None]
            ELSE IF general_rate_match(user_text_lower)
            THEN [branch |-> "general_rates", op |-> "get_rates_to_naira", currencies |-> None]
            ELSE NoCall("fallback", FallbackText)
    IN  Rule(single_rate_match(user_text_lower))

\* rules 5 to 7 and the fallback: single currency rate, multiple rates, general
\* rate inquiry
DispatchRates(user_text_lower) ==
    LET Single(currency) ==
            [branch |-> "single_rate", op |-> "get_rates_to_naira", currency |-> currency,
             currencies |-> [t |-> "list", v |-> <<currency>>]]
        Rule(sm) ==
            IF sm.ok THEN Single(Upper(sm.groups[1]))
            ELSE IF multiple_rates_match(user_text_lower)
            THEN [branch |-> "multiple_rates", op |-> "get_rates_to_naira", currencies |-> None]
            ELSE IF general_rate_match(user_text_lower)
            THEN [branch |-> "general_rates", op |-> "get_rates_to_naira", currencies |-> None]
            ELSE NoCall("fallback", FallbackText)
    IN  Rule(single_rate_match(user_text_lower))

\* the need/want pattern converting to NGN whatever else the text names
DispatchConversionNairaUntested(user_text_lower) ==
    LET Convert(branch, amount_str, from_curr, to_curr) ==
            [branch |-> branch, op |-> "convert_currency", from_currency |-> from_curr,
             to_currency |-> to_curr, amount |-> ParseAmount(amount_str)]
        Rule(cm, hm, later) ==
            IF ~cm.ok /\ hm.ok
            THEN Convert("need_convert", hm.groups[1], hm.groups[2], "NGN")
            ELSE IF cm.ok /\ Len(cm.groups) >= 3
            THEN Convert("conversion", cm.groups[1], cm.groups[2], cm.groups[3])
            ELSE later
    IN  Rule(conversion_match(user_text_lower), help_convert_match(user_text_lower),
             DispatchRates(user_text_lower))

\* rule 4: the conversion patterns, then the need/want pattern when none of them
\* matched, which converts to NGN when the text names naira or ngn and falls
\* through to the later rules when it does not
DispatchConversion(user_text_lower) ==
    LET Convert(branch, amount_str, from_curr, to_curr) ==
            [branch |-> branch, op |-> "convert_currency", from_currency |-> from_curr,
             to_currency |-> to_curr, amount |-> ParseAmount(amount_str)]
        Rule(cm, hm, later) ==
            IF ~cm.ok /\ hm.ok
               /\ (Contains(user_text_lower, "naira") \/ Contains(user_text_lower, "ngn"))
            THEN Convert("need_convert", hm.groups[1], hm.groups[2], "NGN")
            ELSE IF cm.ok /\ Len(cm.groups) >= 3
            THEN Convert("conversion", cm.groups[1], cm.groups[2], cm.groups[3])
            ELSE later
    IN  Rule(conversion_match(user_text_lower), help_convert_match(user_text_lower),
             DispatchRates(user_text_lower))

\* process_message up to its first await or, when it calls nothing, to its return
Dispatch(user_text) ==
    LET user_text_lower == Lower(Strip(user_text))
    IN  IF user_text = "" THEN NoCall("empty", EmptyInputText)
        ELSE IF greeting_patterns(user_text_lower) THEN NoCall("greeting", GreetingText)
        ELSE IF help_patterns(user_text_lower) THEN NoCall("help", HelpText)
        ELSE IF thanks_patterns(user_text_lower) THEN NoCall("thanks", ThanksText)
        ELSE DispatchConversion(user_text_lower)

\* "\n".join of the formatted line of every entry, in the order of rates.keys()
RECURSIVE JoinLines(_, _)
JoinLines(rates, i) ==
    IF i > Len(rates.keys) THEN ""
    ELSE (IF i > 1 THEN "\n" ELSE "") \o "<exchange> " \o rates.ent[rates.keys[i]].formatted
         \o JoinLines(rates, i + 1)

RatesListText(rates) ==
    "Here are current rates to Nigerian Naira <flag-NG>:\n\n" \o JoinLines(rates, 1)

\* process_message from the value the awaited Rate Client call returned to its return
ReplyTo(d, res) ==
    CASE d.branch = "need_convert" ->
           IF "error" \in DOMAIN res
           THEN "Oops! <confused> " \o res.error \o "\n\n" \o PleaseCheckText
                \o "Try: 'convert " \o FloatRepr(d.amount) \o " " \o Upper(d.from_currency)
                \o " to NGN'"
           ELSE "<check> " \o res.message
      [] d.branch = "conversion" ->
           IF "error" \in DOMAIN res
           THEN "Oops! <confused> " \o res.error \o "\n\n" \o PleaseCheckText
                \o "Try: 'convert 10 USD to NGN'"
           ELSE "<check> " \o res.message
      [] d.branch = "single_rate" ->
           IF HasKey(res, "error")
           THEN "Sorry, I couldn't fetch the " \o d.currency \o " rate right now. <confused>\n"
                \o "Error: " \o res.ent["error"] \o "\n\n"
                \o "Try again in a moment or check the currency code."
           ELSE IF HasKey(res, d.currency)
           THEN "<exchange> Current rate: " \o res.ent[d.currency].formatted
           ELSE "Sorry, I couldn't find the rate for " \o d.currency \o ". <thinking>\n"
                \o "Make sure it's a valid 3-letter currency code (e.g., USD, EUR, GBP)."
      [] d.branch = "multiple_rates" ->
           IF HasKey(res, "error")
           THEN "Sorry, couldn't fetch rates right now. <confused>\n"
                \o "Error: " \o res.ent["error"] \o "\n\n"
                \o "Please try again in a moment."
           ELSE RatesListText(res)
      [] d.branch = "general_rates" ->
           IF HasKey(res, "error")
           THEN "Sorry, couldn't fetch rates right now. <confused>\nPlease try again in a moment."
           ELSE RatesListText(res)

\* the Rate Client operation a pending call names, on the outcome of its request
RateClient(c, out) ==
    IF c.op = "convert_currency"
    THEN convert_currency(c.from_currency, c.to_currency, c.amount, out)
    ELSE get_rates_to_naira(c.currencies, out)

\* what process_message hands to its caller: the reply, or the exception the
\* awaited call raised, which no handler of process_message catches
Resume(d, r) == IF r.kind = "raise" THEN r ELSE Return(ReplyTo(d, r.value))

(***************************************************************************)
(* Inputs                                                                  *)
(***************************************************************************)
MaxWords == 2

MaxCodes == 2

Vocabulary == {"hi", "help", "thanks", "rate", "rates", "usd", "naira", "show", "all rate",
               "exchange", "price of eur", "the"}

\* the texts of at most n words of the vocabulary, a space between two words
RECURSIVE WordTexts(_)
WordTexts(n) ==
    IF n = 0 THEN {""}
    ELSE WordTexts(n - 1)
         \cup {w : w \in Vocabulary}
         \cup {t \o " " \o w : t \in WordTexts(n - 1) \ {""}, w \in Vocabulary}

AmountTexts == {"10", "10,5", "10.5", "10.50", "100", "1"}

ConversionTexts ==
    {form[1] \o a \o " " \o f \o form[2] \o t :
        form \in {<<"convert ", " to ">>, <<"How much is ", " in ">>, <<"what is ", " in ">>,
                  <<"what  is ", " to ">>, <<"", " to ">>, <<"", " in ">>},
        a \in AmountTexts, f \in {"usd", "EUR"}, t \in {"ngn", "USD", "xyz"}}

OtherTexts ==
    {"   ", " usd rate\n", "Convert 100 USD to NGN rate", "show rates: convert 1 usd to ngn please",
     "10 eur in usd, or convert 1 usd to ngn", "i need to convert 10 usd to naira",
     "I need to convert 10,5 usd into naira", "want converting 100 eur (ngn)",
     "need convert 10 usd", "i want to convert 5 eur rate", "need\nconvert 10 usd ngn", "helpful: want convert 1 usd ngn",
     "good morning", "goodevening rates", "what can you do", "thank you for the usd rate",
     "usd to ngn", "rate for xyz", "price of eur rate", "what are the exchange rates",
     "exchange rates", "list rates", "RATES", "rates in naira", "1.2.3 usd to ngn",
     "convert ten usd to ngn", "convert 10 dollars to ngn"}

Texts == WordTexts(MaxWords) \cup ConversionTexts \cup OtherTexts

\* the texts of the calls that are compared two by two
PairTexts ==
    {form[1] \o a \o " usd" \o form[2] \o t :
        form \in {<<"convert ", " to ">>, <<"How much is ", " in ">>, <<"what is ", " in ">>,
                  <<"what  is ", " to ">>, <<"", " to ">>, <<"", " in ">>},
        a \in {"10,5", "10.5", "10.50", "1"}, t \in {"ngn", "USD"}}
    \cup {"10 eur in usd, or convert 1 usd to ngn", "CONVERT 1 USD TO NGN rate",
          "I need to convert 10,5 usd into naira", "help", ""}

ArgCodes == {"usd", "USD", "ngn", "XXX"}

ArgAmounts == {Rat(100, 1), Rat(1, 1), Rat(21, 2)}

RECURSIVE CodeLists(_)
CodeLists(n) ==
    IF n = 0 THEN {<<>>}
    ELSE CodeLists(n - 1) \cup {Append(q, c) : q \in CodeLists(n - 1), c \in ArgCodes}

CurrenciesArgs == {None} \cup {[t |-> "list", v |-> q] : q \in CodeLists(MaxCodes)}

\* a rates table: each code absent or with one of the values
NGNValues == {JNum(0, 1), JNum(1500, 1), JNum(1, 8), JNum(3, 100000), JNull}

USDValues == {JNum(0, 1), JNum(67, 100000), JNum(250, 1), JStr("abc")}

EURValues == {JNum(1, 8)}

Table(ngn, usd, eur) ==
    [k \in (IF ngn = {} THEN {} ELSE {"NGN"}) \cup (IF usd = {} THEN {} ELSE {"USD"})
           \cup (IF eur = {} THEN {} ELSE {"EUR"}) |->
        IF k = "NGN" THEN CHOOSE v \in ngn : TRUE
        ELSE IF k = "USD" THEN CHOOSE v \in usd : TRUE
        ELSE CHOOSE v \in eur : TRUE]

Opt(S) == {{}} \cup {{v} : v \in S}

Tables == {Table(ngn, usd, eur) : ngn \in Opt(NGNValues), usd \in Opt(USDValues), eur \in Opt(EURValues)}

Bodies ==
    {JNull, JNum(5, 1), JStr("no such base"), JStr("rates"), JList(<<>>), JList(<<JStr("rates")>>),
     JMap([result |-> JStr("error")]), JMap([rates |-> JNull]), JMap([rates |-> JList(<<JStr("NGN"), JStr("USD")>>)]),
     JMap([rates |-> JStr("USD NGN")])}
    \cup {JMap([rates |-> JMap(tb)]) : tb \in Tables}

Outcomes ==
    {[kind |-> "ConnectTimeout"], [kind |-> "ReadTimeout"]}
    \cup {[kind |-> "RequestError", msg |-> m] : m \in {"", "All connection attempts failed"}}
    \cup {[kind |-> "Response", status |-> st, body |-> JNull] : st \in {404, 500}}
    \cup {[kind |-> "Response", status |-> 200, body |-> b] : b \in Bodies \cup {JInvalid}}

\* Dispatch, computed once for each text
DispatchOf == [t \in Texts \cup PairTexts |-> Dispatch(t)]

(***************************************************************************)
(* The state machine: one call at a time of process_message or, from the   *)
(* /convert and /rates endpoints, of a Rate Client operation.  A call      *)
(* stops at its await of client.get until the upstream outcome arrives.    *)
(***************************************************************************)
NoValue == [kind |-> "none"]

MaxTasks == 2

\* the calls of process_message that run on the event loop at the same time
Tasks == 1..MaxTasks

\* a call that has not started: process_message has only local variables
IdleTask == [pc |-> "idle", text |-> "", call |-> [op |-> "none"], outcome |-> NoValue,
             reply |-> NoValue]

\* no request in the A2A endpoint, no webhook task
IdleAgent == [pc |-> "idle"]

NoHook == [pc |-> "none"]

Init ==
    /\ pc = "idle"
    /\ entry = "none"
    /\ text = ""
    /\ call = [op |-> "none"]
    /\ requests = 0
    /\ calls = 0
    /\ outcome = NoValue
    /\ result = NoValue
    /\ reply = NoValue
    /\ prev = NoValue
    /\ tasks = [i \in Tasks |-> IdleTask]
    /\ a2a = IdleAgent
    /\ hook = NoHook

\* process_message(t): to its return when no rule calls the Rate Client, else to
\* the client.get of the called operation
ProcessMessageCall(t) ==
    /\ pc = "idle"
    /\ entry' = "process_message"
    /\ text' = t
    /\ call' = DispatchOf[t]
    /\ IF call'.op = "none"
       THEN /\ pc' = "done"
            /\ reply' = Return(call'.reply)
            /\ UNCHANGED <<requests, calls>>
       ELSE /\ pc' = "await"
            /\ reply' = NoValue
            /\ calls' = calls + 1
            /\ requests' = requests + 1
    /\ UNCHANGED <<outcome, result, prev>>

\* convert_currency(f, t, a) called by the /convert endpoint, to its client.get
ConvertCurrencyCall(f, t, a) ==
    /\ pc = "idle"
    /\ entry' = "convert_currency"
    /\ call' = [branch |-> "direct", op |-> "convert_currency",
                from_currency |-> f, to_currency |-> t, amount |-> a]
    /\ pc' = "await"
    /\ calls' = calls + 1
    /\ requests' = requests + 1
    /\ UNCHANGED <<text, outcome, result, reply, prev>>

\* get_rates_to_naira(c) called by the /rates endpoint, to its client.get
GetRatesCall(c) ==
    /\ pc = "idle"
    /\ entry' = "get_rates_to_naira"
    /\ call' = [branch |-> "direct", op |-> "get_rates_to_naira", currencies |-> c]
    /\ pc' = "await"
    /\ calls' = calls + 1
    /\ requests' = requests + 1
    /\ UNCHANGED <<text, outcome, result, reply, prev>>

\* a client that sends the request again after a failure
UpstreamRespondRetry(out) ==
    /\ pc = "await"
    /\ outcome' = out
    /\ IF RequestFailed(out) /\ requests < 2
       THEN /\ requests' = requests + 1
            /\ UNCHANGED <<pc, result, reply>>
       ELSE /\ result' = RateClient(call, out)
            /\ reply' = IF entry = "process_message" THEN Resume(call, result') ELSE NoValue
            /\ pc' = "done"
            /\ UNCHANGED requests
    /\ UNCHANGED <<entry, text, call, calls, prev>>

\* the request ends in out: the operation runs to its return (or raises), and
\* process_message, when it is the caller, to its own
UpstreamRespond(out) ==
    /\ pc = "await"
    /\ outcome' = out
    /\ result' = RateClient(call, out)
    /\ reply' = IF entry = "process_message" THEN Resume(call, result') ELSE NoValue
    /\ pc' = "done"
    /\ UNCHANGED <<entry, text, call, requests, calls, prev>>

\* the caller has its answer; the next call starts from nothing
Finish ==
    /\ pc = "done"
    /\ pc' = "idle"
    /\ entry' = "none"
    /\ text' = ""
    /\ call' = [op |-> "none"]
    /\ requests' = 0
    /\ calls' = 0
    /\ outcome' = NoValue
    /\ result' = NoValue
    /\ reply' = NoValue
    /\ UNCHANGED prev

Next ==
    \/ \E t \in Texts : ProcessMessageCall(t) /\ UNCHANGED <<tasks, a2aVars>>
    \/ \E f \in ArgCodes, t \in ArgCodes, a \in ArgAmounts :
          ConvertCurrencyCall(f, t, a) /\ UNCHANGED <<tasks, a2aVars>>
    \/ \E c \in CurrenciesArgs : GetRatesCall(c) /\ UNCHANGED <<tasks, a2aVars>>
    \/ \E out \in Outcomes : UpstreamRespond(out) /\ UNCHANGED <<tasks, a2aVars>>
    \/ Finish /\ UNCHANGED <<tasks, a2aVars>>

Spec == Init /\ [][Next]_vars

(***************************************************************************)
(* Two calls of process_message in a row, the first remembered in prev, to *)
(* compare the replies to two texts under the same upstream outcome.       *)
(***************************************************************************)
PairOutcomes ==
    {[kind |-> "ReadTimeout"],
     [kind |-> "Response", status |-> 200, body |-> JNull],
     [kind |-> "Response", status |-> 200, body |-> JMap([rates |-> JMap([USD |-> JNum(1, 1)])])],
     [kind |-> "Response", status |-> 200,
      body |-> JMap([rates |-> JMap([NGN |-> JNum(1500, 1), USD |-> JNum(1, 1)])])]}

\* the caller has its answer, which is remembered for the call that follows
FinishRecord ==
    /\ pc = "done"
    /\ prev' = [kind |-> "call", text |-> text, call |-> call, outcome |-> outcome,
                result |-> result, reply |-> reply]
    /\ pc' = "idle"
    /\ entry' = "none"
    /\ text' = ""
    /\ call' = [op |-> "none"]
    /\ requests' = 0
    /\ calls' = 0
    /\ outcome' = NoValue
    /\ result' = NoValue
    /\ reply' = NoValue

NextPair ==
    \/ \E t \in PairTexts : ProcessMessageCall(t) /\ UNCHANGED <<tasks, a2aVars>>
    \/ \E out \in PairOutcomes : UpstreamRespond(out) /\ UNCHANGED <<tasks, a2aVars>>
    \/ FinishRecord /\ UNCHANGED <<tasks, a2aVars>>

SpecPair == Init /\ [][NextPair]_vars

(***************************************************************************)
(* Calls of process_message that overlap: each is a coroutine with its own *)
(* local variables, and the event loop runs one of them from an await to   *)
(* the next.  The module-level names they share, the pattern literals and  *)
(* CURRENCY_SYMBOLS, are never assigned.                                   *)
(***************************************************************************)
TaskTexts == {"", "help", "usd rate", "rates", "convert 10,5 usd to ngn", "10.5 usd to ngn"}

\* task i enters process_message(t) and runs to its return or to its await
TaskStart(i, t) ==
    /\ tasks[i].pc = "idle"
    /\ tasks' = [tasks EXCEPT ![i] =
                    IF DispatchOf[t].op = "none"
                    THEN [pc |-> "done", text |-> t, call |-> DispatchOf[t], outcome |-> NoValue,
                          reply |-> Return(DispatchOf[t].reply)]
                    ELSE [pc |-> "await", text |-> t, call |-> DispatchOf[t], outcome |-> NoValue,
                          reply |-> NoValue]]
    /\ UNCHANGED callVars

\* local variables shared by the tasks: the highest-numbered awaiting call overwrites them
TaskRespondSharedLocals(i, out) ==
    LET last == CHOOSE j \in Tasks : tasks[j].pc = "await" /\ \A k \in Tasks : tasks[k].pc = "await" => k <= j
    IN  /\ tasks[i].pc = "await"
        /\ tasks' = [tasks EXCEPT ![i].pc = "done", ![i].outcome = out,
                                  ![i].reply = Resume(tasks[last].call, RateClient(tasks[last].call, out))]
        /\ UNCHANGED callVars

\* the request of task i ends in out, and the task runs to its return
TaskRespond(i, out) ==
    /\ tasks[i].pc = "await"
    /\ tasks' = [tasks EXCEPT ![i].pc = "done", ![i].outcome = out,
                              ![i].reply = Resume(tasks[i].call, RateClient(tasks[i].call, out))]
    /\ UNCHANGED callVars

\* the caller of task i has its answer
TaskFinish(i) ==
    /\ tasks[i].pc = "done"
    /\ tasks' = [tasks EXCEPT ![i] = IdleTask]
    /\ UNCHANGED callVars

NextConcurrent ==
    \/ \E i \in Tasks, t \in TaskTexts : TaskStart(i, t) /\ UNCHANGED a2aVars
    \/ \E i \in Tasks, out \in PairOutcomes : TaskRespond(i, out) /\ UNCHANGED a2aVars
    \/ \E i \in Tasks : TaskFinish(i) /\ UNCHANGED a2aVars

SpecConcurrent == Init /\ [][NextConcurrent]_vars

(***************************************************************************)
(* src/main.py: a2a_agent and send_webhook_notification.  A request is the *)
(* JSON-RPC body as the handler reads it: whether it passes the two        *)
(* validations, its method, whether its params.configuration carries a     *)
(* pushNotificationConfig, and the user text its messages hold.  The       *)
(* webhook task created by asyncio.create_task runs on the event loop      *)
(* after the handler has returned.                                         *)
(***************************************************************************)
A2ATexts == {"", "help", "usd rate", "rates", "convert 10,5 usd to ngn"}

RequestIds == {"req-1", "req-2"}

A2ARequests ==
    [envelope : {"valid", "not_jsonrpc", "invalid_params"}, id : RequestIds,
     method : {"message/send", "execute"}, push : BOOLEAN, text : A2ATexts]

\* client.post of the webhook task: a status, a timeout, or another exception
HookOutcomes ==
    {[kind |-> "Response", status |-> 200], [kind |-> "Response", status |-> 500],
     [kind |-> "TimeoutException"], [kind |-> "ConnectError"]}

\* the response_data of a reply, sent with status 200
ReplyResponse(id, response_text) == [status |-> 200, id |-> id, text |-> response_text]

\* a JSONResponse with a JSON-RPC error
ErrorResponse(status_code, id, code) == [status |-> status_code, id |-> id, code |-> code]

\* a2a_agent from the request to its return when a validation fails, else to the
\* return of process_message or to the await inside it
A2AReceive(req) ==
    /\ a2a.pc = "idle"
    /\ hook.pc = "none"
    /\ IF req.envelope = "not_jsonrpc"
       THEN /\ a2a' = [pc |-> "returned", id |-> req.id, method |-> req.method, push |-> FALSE,
                       response |-> ErrorResponse(400, req.id, -32600)]
            /\ pc = "idle"
            /\ UNCHANGED callVars
       ELSE IF req.envelope = "invalid_params"
       THEN /\ a2a' = [pc |-> "returned", id |-> req.id, method |-> req.method, push |-> FALSE,
                       response |-> ErrorResponse(400, req.id, -32602)]
            /\ pc = "idle"
            /\ UNCHANGED callVars
       ELSE /\ a2a' = [pc |-> "processing", id |-> req.id, method |-> req.method,
                       push |-> (req.method = "message/send" /\ req.push),
                       response |-> NoValue]
            /\ ProcessMessageCall(req.text)
    /\ UNCHANGED <<hook, tasks>>

\* the request made inside process_message ends in out
A2AUpstream(out) ==
    /\ a2a.pc = "processing"
    /\ UpstreamRespond(out)
    /\ UNCHANGED <<a2a, hook, tasks>>

\* a handler that awaits the webhook before it returns
A2ARespondAwaitsWebhook ==
    /\ a2a.pc = "processing"
    /\ pc = "done"
    /\ IF reply.kind = "raise"
       THEN /\ a2a' = [a2a EXCEPT !.pc = "returned", !.response = ErrorResponse(500, a2a.id, -32603)]
            /\ UNCHANGED hook
       ELSE IF a2a.push /\ hook.pc = "none"
       THEN /\ hook' = [pc |-> "scheduled", original_request_id |-> a2a.id,
                             response_text |-> reply.value]
            /\ UNCHANGED a2a
       ELSE /\ a2a.push => hook.pc = "finished"
            /\ a2a' = [a2a EXCEPT !.pc = "returned", !.response = ReplyResponse(a2a.id, reply.value)]
            /\ UNCHANGED hook
    /\ UNCHANGED <<callVars, tasks>>

\* a2a_agent from the return of process_message to its own: the response is built,
\* the webhook task is created when the configuration asks for it, and the
\* response is returned; an exception of process_message is answered with 500
A2ARespond ==
    /\ a2a.pc = "processing"
    /\ pc = "done"
    /\ IF reply.kind = "raise"
       THEN /\ a2a' = [a2a EXCEPT !.pc = "returned", !.response = ErrorResponse(500, a2a.id, -32603)]
            /\ UNCHANGED hook
       ELSE /\ a2a' = [a2a EXCEPT !.pc = "returned", !.response = ReplyResponse(a2a.id, reply.value)]
            /\ hook' = IF a2a.push THEN [pc |-> "scheduled", original_request_id |-> a2a.id,
                             response_text |-> reply.value]
                       ELSE hook
    /\ UNCHANGED <<callVars, tasks>>

\* the event loop starts the webhook task, which runs to its await of client.post
HookStart ==
    /\ hook.pc = "scheduled"
    /\ hook' = [hook EXCEPT !.pc = "posting"]
    /\ UNCHANGED <<callVars, tasks, a2a>>

\* client.post ends in o: the task logs the result and ends, the exception caught
HookRespond(o) ==
    /\ hook.pc = "posting"
    /\ hook' = [pc |-> "finished", original_request_id |-> hook.original_request_id,
                response_text |-> hook.response_text,
                log |-> IF o.kind # "Response" THEN "error"
                        ELSE IF o.status = 200 THEN "sent" ELSE "failed"]
    /\ UNCHANGED <<callVars, tasks, a2a>>

\* the response has reached the caller and the webhook task, if any, has ended
A2AFinish ==
    /\ a2a.pc = "returned"
    /\ hook.pc \in {"none", "finished"}
    /\ a2a' = IdleAgent
    /\ hook' = NoHook
    /\ IF pc = "done" THEN Finish ELSE UNCHANGED callVars
    /\ UNCHANGED tasks

NextA2A ==
    \/ \E req \in A2ARequests : A2AReceive(req)
    \/ \E out \in PairOutcomes : A2AUpstream(out)
    \/ A2ARespond
    \/ HookStart
    \/ \E o \in HookOutcomes : HookRespond(o)
    \/ A2AFinish

SpecA2A == Init /\ [][NextA2A]_vars

(***************************************************************************)
(* Properties                                                              *)
(***************************************************************************)
Done == pc = "done"

ByProcessMessage == entry = "process_message"

IsObject(b) == b.t = "map"

Succeeded(out) == out.kind = "Response" /\ IsSuccessStatus(out.status) /\ out.body # JInvalid

\* the body is a JSON object whose "rates" is a JSON object: the rates table
HasRatesTable(out) ==
    Succeeded(out) /\ IsObject(out.body) /\ "rates" \in DOMAIN out.body.v
        /\ IsObject(out.body.v["rates"])

RatesTable(out) == out.body.v["rates"].v

\* the codes the pending call asks the upstream table for, in upper case
RequestedCodes(c) ==
    IF c.op = "convert_currency" THEN {Upper(c.to_currency)}
    ELSE IF c.currencies = None THEN Range(DefaultCurrencies)
    ELSE {Upper(c.currencies.v[i]) : i \in DOMAIN c.currencies.v}

\* every requested code the table holds is a number there
RequestedAreNumbers(c, out) ==
    \A k \in RequestedCodes(c) \cap DOMAIN RatesTable(out) : RatesTable(out)[k].t = "num"

\* the outcomes C1 lists: timeout, transport failure, non-success status, a
\* response object without a rates table, and a response object with a rates
\* table of numbers, holding the requested code (success) or not
ListedOutcome(c, out) ==
    \/ out.kind \in {"ConnectTimeout", "ReadTimeout", "RequestError"}
    \/ out.kind = "Response" /\ ~IsSuccessStatus(out.status)
    \/ Succeeded(out) /\ IsObject(out.body) /\ "rates" \notin DOMAIN out.body.v
    \/ HasRatesTable(out) /\ RequestedAreNumbers(c, out)

IsErrorValue(c, r) ==
    /\ r.kind = "return"
    /\ IF c.op = "convert_currency" THEN "error" \in DOMAIN r.value ELSE HasKey(r.value, "error")

ErrorText(c, r) == IF c.op = "convert_currency" THEN r.value.error ELSE r.value.ent["error"]

UpstreamFailure(c, out) ==
    \/ RequestFailed(out)
    \/ ~HasRatesTable(out)
    \/ ~RequestedAreNumbers(c, out)

\* C2: every upstream failure of a Rate Client operation ends in a returned
\* error value, never in a raised exception
C2_FailuresReturnErrorValue ==
    (Done /\ call.op # "none" /\ UpstreamFailure(call, outcome)) => IsErrorValue(call, result)

\* the position of a rule in the order of precedence
RuleOf(branch) ==
    CASE branch = "empty" -> 1
      [] branch = "greeting" -> 2
      [] branch = "help" -> 3
      [] branch = "thanks" -> 4
      [] branch \in {"conversion", "need_convert"} -> 5
      [] branch = "single_rate" -> 6
      [] branch \in {"multiple_rates", "general_rates"} -> 7
      [] branch = "fallback" -> 8

\* the pattern of the k-th rule matches the text t, s its stripped lower case
RuleMatches(k, t, s) ==
    CASE k = 1 -> t = ""
      [] k = 2 -> greeting_patterns(s)
      [] k = 3 -> help_patterns(s)
      [] k = 4 -> thanks_patterns(s)
      [] k = 5 -> \/ conversion_match(s).ok
                  \/ help_convert_match(s).ok /\ (Contains(s, "naira") \/ Contains(s, "ngn"))
      [] k = 6 -> single_rate_match(s).ok
      [] k = 7 -> multiple_rates_match(s) \/ general_rate_match(s)
      [] k = 8 -> TRUE

\* the first rule, in the order of precedence, whose pattern matches each text
FirstRule ==
    [t \in Texts |->
        LET s == Lower(Strip(t))
            matching == {k \in 1..8 : RuleMatches(k, t, s)}
        IN  CHOOSE k \in matching : \A j \in matching : k <= j]

\* the reply belongs to the k-th rule: its fixed text, or the operation it calls
ReplyOfRule(k) ==
    CASE k = 1 -> call.op = "none" /\ (Done => reply = Return(EmptyInputText))
      [] k = 2 -> call.op = "none" /\ (Done => reply = Return(GreetingText))
      [] k = 3 -> call.op = "none" /\ (Done => reply = Return(HelpText))
      [] k = 4 -> call.op = "none" /\ (Done => reply = Return(ThanksText))
      [] k = 5 -> call.op = "convert_currency"
      [] k = 6 -> call.op = "get_rates_to_naira" /\ call.currencies # None
      [] k = 7 -> call.op = "get_rates_to_naira" /\ call.currencies = None
      [] k = 8 -> call.op = "none" /\ (Done => reply = Return(FallbackText))

\* C3: the rule that answers is the first rule, in the order empty input, greeting,
\* help, thanks, conversion, single rate, multiple rates, fallback, whose pattern
\* matches the text; the empty text gets the empty-input prompt
C3_FirstMatchingRuleWins ==
    (ByProcessMessage /\ pc \in {"await", "done"})
        => /\ RuleOf(call.branch) = FirstRule[text]
           /\ ReplyOfRule(FirstRule[text])
           /\ (text = "" => reply = Return(EmptyInputText) /\ reply # Return(FallbackText))

\* a conversion phrase that also matches the single-rate pattern is a conversion
C3_Witness ==
    /\ Done /\ ByProcessMessage /\ call.branch = "conversion"
    /\ single_rate_match(Lower(Strip(text))).ok
    /\ reply.kind = "return"

HasSuggestion(txt) == Contains(txt, "Try") \/ Contains(txt, "try again")

\* C4: when the Rate Client call of process_message returned an error value, the
\* reply contains the error text and a corrective suggestion
C4_ErrorReplyEchoesError ==
    (Done /\ ByProcessMessage /\ call.op # "none" /\ IsErrorValue(call, result))
        => /\ reply.kind = "return"
           /\ Contains(reply.value, ErrorText(call, result))
           /\ HasSuggestion(reply.value)

\* the rate fields of a returned value
RateFields(c, r) ==
    IF c.op = "convert_currency"
    THEN (IF "rate" \in DOMAIN r.value THEN {r.value.rate} ELSE {})
    ELSE IF HasKey(r.value, "error") THEN {}
    ELSE {r.value.ent[k].rate : k \in DOMAIN r.value.ent}

\* C5: a rate field of a returned value is greater than 0
C5_RatePositive ==
    (Done /\ call.op # "none" /\ result.kind = "return")
        => \A x \in RateFields(call, result) : x.n > 0

\* the requested codes the upstream table holds with a nonzero rate
NonzeroRequested(c, out) ==
    {k \in RequestedCodes(c) \cap DOMAIN RatesTable(out) : RatesTable(out)[k].v.n # 0}

\* C6: on a rates table (of numbers) get_rates_to_naira returns a mapping with
\* exactly one entry per requested code the table holds with a nonzero rate, its
\* rate the inverse rounded to 2 decimals and its line non-empty; the other
\* requested codes are left out and no error is returned
C6_RatesMappingExact ==
    (Done /\ call.op = "get_rates_to_naira" /\ HasRatesTable(outcome)
          /\ RequestedAreNumbers(call, outcome))
        => /\ result.kind = "return"
           /\ ~HasKey(result.value, "error")
           /\ DOMAIN result.value.ent = NonzeroRequested(call, outcome)
           /\ Range(result.value.keys) = NonzeroRequested(call, outcome)
           /\ Len(result.value.keys) = Cardinality(NonzeroRequested(call, outcome))
           /\ \A k \in DOMAIN result.value.ent :
                /\ result.value.ent[k].rate = Round(RatInv(RatesTable(outcome)[k].v), 2)
                /\ result.value.ent[k].formatted # ""

\* one requested code is in the table, another is silently left out
C6_Witness ==
    /\ Done /\ call.op = "get_rates_to_naira" /\ call.currencies # None
    /\ HasRatesTable(outcome) /\ RequestedAreNumbers(call, outcome)
    /\ call.currencies.v = <<"usd", "XXX">>
    /\ result.kind = "return" /\ result.value.keys = <<"USD">>

C8_ExactlyOneRequest ==
    (pc \in {"await", "done"} /\ call.op # "none") => requests = 1

C8_Witness ==
    Done /\ call.op # "none" /\ RequestFailed(outcome) /\ IsErrorValue(call, result) /\ requests = 1

\* the conversion pattern that matches each text first (0: none), and what the
\* claim takes as extracted from it: the amount as a number, a comma or a point
\* its decimal separator, and the two codes
PatternOf ==
    [t \in PairTexts |->
        LET s == Lower(Strip(t))
            matching == {k \in 1..Len(ConversionPatterns) : PatternSearch(s, k).ok}
        IN  IF matching = {} THEN 0 ELSE CHOOSE k \in matching : \A j \in matching : k <= j]

Extracted ==
    [t \in PairTexts |->
        IF PatternOf[t] = 0 THEN <<>>
        ELSE LET g == PatternSearch(Lower(Strip(t)), PatternOf[t]).groups
             IN  <<ParseFloat(Replace(g[1], ",", ".")), g[2], g[3]>>]

BothConversions ==
    /\ Done /\ ByProcessMessage /\ prev.kind = "call"
    /\ call.branch = "conversion" /\ prev.call.branch = "conversion"
    /\ Extracted[text] = Extracted[prev.text]
    /\ outcome = prev.outcome

\* C9: two conversion phrasings from which the same amount and codes are extracted
\* call convert_currency with the same arguments and, under the same upstream
\* response, get the same success text, whichever patterns matched them
C9_SameTripleSameReply ==
    BothConversions
        => /\ call.amount = prev.call.amount
           /\ call.from_currency = prev.call.from_currency
           /\ call.to_currency = prev.call.to_currency
           /\ (reply.kind = "return" /\ ~IsErrorValue(call, result) => reply = prev.reply)

\* the same amount typed with a comma and with a point, under two patterns
C9_Witness ==
    /\ BothConversions
    /\ PatternOf[text] # PatternOf[prev.text]
    /\ Contains(text, "10,5") /\ Contains(prev.text, "10.50")
    /\ reply.kind = "return" /\ ~IsErrorValue(call, result)
    /\ reply = prev.reply

\* C10: on a rates table holding the target code convert_currency returns the
\* upper-case codes, the upstream rate rounded to 4 decimals and amount times the
\* upstream rate rounded to 2 decimals; 100 USD at 1500 is 150000.00 at rate 1500.0
C10_ConversionValues ==
    (Done /\ call.op = "convert_currency" /\ HasRatesTable(outcome)
          /\ Upper(call.to_currency) \in DOMAIN RatesTable(outcome)
          /\ RequestedAreNumbers(call, outcome))
        => LET up == RatesTable(outcome)[Upper(call.to_currency)].v
           IN  /\ result.kind = "return"
               /\ result.value.from = Upper(call.from_currency)
               /\ result.value.to = Upper(call.to_currency)
               /\ result.value.rate = Round(up, 4)
               /\ result.value.converted = Round(RatMul(call.amount, up), 2)
               /\ (call.amount = Rat(100, 1) /\ up = Rat(1500, 1)
                     => result.value.converted = Rat(150000, 1)
                        /\ result.value.rate = Rat(1500, 1))

C10_Witness ==
    /\ Done /\ call.op = "convert_currency" /\ HasRatesTable(outcome)
    /\ call.amount = Rat(100, 1) /\ call.from_currency = "usd" /\ call.to_currency = "ngn"
    /\ "NGN" \in DOMAIN RatesTable(outcome) /\ RatesTable(outcome)["NGN"] = JNum(1500, 1)
    /\ result.kind = "return" /\ result.value.converted = Rat(150000, 1)
    /\ result.value.from = "USD" /\ result.value.to = "NGN"

\* the amount as each text writes it: the first group of the conversion pattern,
\* or of the need/want pattern, that matches it ("" when none does)
AmountWritten ==
    [t \in {u \in Texts : Cardinality({i \in 1..Len(u) : Ch(u, i) = ","}) = 1} |->
        LET Group(cm, hm) == IF cm.ok THEN cm.groups[1] ELSE IF hm.ok THEN hm.groups[1] ELSE ""
        IN  Group(conversion_match(Lower(Strip(t))), help_convert_match(Lower(Strip(t))))]

\* the text with every comma written as a point
PointForm(t) == Replace(t, ",", ".")

\* the amount of the text is written I,F and the text has no other comma
CommaAmount(t) ==
    /\ Cardinality({i \in 1..Len(t) : Ch(t, i) = ","}) = 1
    /\ Contains(AmountWritten[t], ",")

\* what process_message makes of each such text once its comma is written as a point
PointFormDispatch == [t \in DOMAIN AmountWritten |-> Dispatch(PointForm(t))]

\* C11: a conversion request whose amount is written I,F calls convert_currency
\* with the amount, and the codes, of the same text written with I.F; 'convert 10,5
\* EUR to USD' calls it with 10.5, EUR and USD
C11_CommaIsDecimalPoint ==
    (ByProcessMessage /\ pc \in {"await", "done"} /\ CommaAmount(text))
        => LET Same(d) ==
                   /\ call.op = "convert_currency" /\ d.op = "convert_currency"
                   /\ call.amount = d.amount
                   /\ call.from_currency = d.from_currency
                   /\ call.to_currency = d.to_currency
           IN  /\ Same(PointFormDispatch[text])
               /\ (text = "convert 10,5 EUR to USD"
                     => /\ call.amount = Rat(21, 2)
                        /\ Upper(call.from_currency) = "EUR"
                        /\ Upper(call.to_currency) = "USD")

C11_Witness ==
    /\ Done /\ ByProcessMessage /\ text = "convert 10,5 EUR to USD"
    /\ call.op = "convert_currency" /\ call.amount = Rat(21, 2)
    /\ reply.kind = "return"

\* the reply process_message gives to the text t when it runs alone and its
\* request, if it makes one, ends in out
ReplyAlone(t, out) ==
    IF DispatchOf[t].op = "none" THEN Return(DispatchOf[t].reply)
    ELSE Resume(DispatchOf[t], RateClient(DispatchOf[t], out))

\* C12: process_message keeps no state: in every interleaving of overlapping calls
\* each call gets the reply it would get alone, so two calls with the same text
\* and the same upstream response get the same reply, and 'help' always the help
\* text
C12_RepliesIndependent ==
    /\ \A i \in Tasks :
          tasks[i].pc = "done"
            => /\ tasks[i].reply = ReplyAlone(tasks[i].text, tasks[i].outcome)
               /\ (tasks[i].text = "help" => tasks[i].reply = Return(HelpText))
    /\ \A i \in Tasks, j \in Tasks :
          (tasks[i].pc = "done" /\ tasks[j].pc = "done" /\ tasks[i].text = tasks[j].text
             /\ tasks[i].outcome = tasks[j].outcome)
            => tasks[i].reply = tasks[j].reply

\* two overlapping calls with the same text and the same upstream response
C12_Witness ==
    /\ tasks[1].pc = "done" /\ tasks[2].pc = "done"
    /\ tasks[1].text = "usd rate" /\ tasks[2].text = "usd rate"
    /\ tasks[1].outcome = tasks[2].outcome /\ tasks[1].outcome.kind = "Response"
    /\ tasks[1].reply.kind = "return" /\ tasks[1].reply = tasks[2].reply

\* the code each text names for the single-rate rule, in upper case ("" when the
\* text has neither the form '<CCY> rate' nor 'rate/price of/for <CCY>')
SingleRateCode ==
    [t \in {u \in Texts : FirstRule[u] = 6} |->
        LET Code(sm) == IF sm.ok THEN Upper(sm.groups[1]) ELSE ""
        IN  Code(single_rate_match(Lower(Strip(t))))]

\* C13: when the single-rate rule is the first that matches, process_message calls
\* get_rates_to_naira once, with the list of the one code in upper case; the reply
\* holds the lookup's error text when it returned an error value, the formatted
\* line of the code when it returned an entry for it, and a could-not-find message
\* naming the code when it returned neither
C13_SingleRateLookup ==
    (ByProcessMessage /\ pc \in {"await", "done"} /\ FirstRule[text] = 6)
        => /\ call.op = "get_rates_to_naira"
           /\ call.currencies = [t |-> "list", v |-> <<SingleRateCode[text]>>]
           /\ Len(SingleRateCode[text]) = 3
           /\ calls = 1
           /\ (text = "usd rate" => SingleRateCode[text] = "USD")
           /\ (text = "price of eur" => SingleRateCode[text] = "EUR")
           /\ (Done /\ result.kind = "return")
                => /\ reply.kind = "return"
                   /\ IF HasKey(result.value, "error")
                      THEN Contains(reply.value, "Error: " \o result.value.ent["error"])
                      ELSE IF HasKey(result.value, SingleRateCode[text])
                      THEN reply.value = "<exchange> Current rate: "
                                            \o result.value.ent[SingleRateCode[text]].formatted
                      ELSE /\ Contains(reply.value, "couldn't find the rate for "
                                                       \o SingleRateCode[text])
                           /\ ~Contains(reply.value, "Current rate")

\* the upstream table has no entry for the code, and the lookup left it out
C13_Witness ==
    /\ Done /\ ByProcessMessage /\ text = "rate for xyz"
    /\ call.currencies = [t |-> "list", v |-> <<"XYZ">>]
    /\ HasRatesTable(outcome) /\ DOMAIN RatesTable(outcome) # {}
    /\ result.kind = "return" /\ result.value.keys = <<>>
    /\ reply.kind = "return" /\ Contains(reply.value, "couldn't find the rate for XYZ")

\* the lines of a text, a line break between two of them
RECURSIVE LinesOf(_)
LinesOf(txt) ==
    IF \E i \in 1..Len(txt) : Ch(txt, i) = "\n"
    THEN LET Cut(i) == <<SubSeq(txt, 1, i - 1)>> \o LinesOf(SubSeq(txt, i + 1, Len(txt)))
         IN  Cut(CHOOSE i \in 1..Len(txt) : Ch(txt, i) = "\n" /\ \A j \in 1..(i - 1) : Ch(txt, j) # "\n")
    ELSE <<txt>>

FiveDefaultCodes == <<"USD", "EUR", "GBP", "JPY", "CAD">>

\* the codes of seq that are in S, in the order of seq
RECURSIVE Kept(_, _)
Kept(seq, S) ==
    IF seq = <<>> THEN <<>>
    ELSE (IF Head(seq) \in S THEN <<Head(seq)>> ELSE <<>>) \o Kept(Tail(seq), S)

\* C14: when the first rule that matches is the multiple-rates rule (a rate or
\* exchange keyword with an aggregation keyword, or a rate keyword and no word of
\* 3 letters), process_message calls get_rates_to_naira once with no list, the
\* lookup answers for USD, EUR, GBP, JPY, CAD, and on success the reply is the
\* heading, an empty line and one formatted line per entry of the mapping, in its
\* order (no line but an empty one when the mapping has no entry)
C14_DefaultRatesListed ==
    (ByProcessMessage /\ pc \in {"await", "done"} /\ FirstRule[text] = 7)
        => /\ call.op = "get_rates_to_naira"
           /\ call.currencies = None
           /\ calls = 1
           /\ LET s == Lower(Strip(text))
              IN  \/ AnyWordIn(s, {"rate", "rates", "exchange"})
                       /\ AnyWordIn(s, {"ngn", "naira", "show", "all", "list"})
                  \/ AnyWordIn(s, {"rate", "rates", "exchange"}) /\ ~ThreeLetterWordIn(s)
           /\ (Done /\ HasRatesTable(outcome) /\ RequestedAreNumbers(call, outcome))
                => /\ result.kind = "return" /\ ~HasKey(result.value, "error")
                   /\ result.value.keys
                        = Kept(FiveDefaultCodes,
                               {k \in Range(FiveDefaultCodes) \cap DOMAIN RatesTable(outcome) :
                                   RatesTable(outcome)[k].v.n # 0})
           /\ (Done /\ result.kind = "return" /\ ~HasKey(result.value, "error"))
                => /\ reply.kind = "return"
                   /\ LinesOf(reply.value)
                        = <<"Here are current rates to Nigerian Naira <flag-NG>:", "">>
                          \o (IF result.value.keys = <<>> THEN <<"">>
                              ELSE [i \in 1..Len(result.value.keys) |->
                                      "<exchange> "
                                        \o result.value.ent[result.value.keys[i]].formatted])

\* two of the default codes are in the upstream table: two lines, in their order
C14_Witness ==
    /\ Done /\ ByProcessMessage /\ text = "show rates" /\ call.currencies = None
    /\ result.kind = "return" /\ result.value.keys = <<"USD", "EUR">>
    /\ reply.kind = "return" /\ Len(LinesOf(reply.value)) = 4

\* the texts only the need/want pattern matches and that name neither naira nor ngn
NeedWantOnly ==
    {t \in Texts :
        LET Only(s) ==
                /\ help_convert_match(s).ok /\ ~conversion_match(s).ok
                /\ ~Contains(s, "naira") /\ ~Contains(s, "ngn")
        IN  Only(Lower(Strip(t)))}

FixedReplies ==
    {Return(EmptyInputText), Return(GreetingText), Return(HelpText), Return(ThanksText),
     Return(FallbackText)}

\* C15: a call of process_message calls the Rate Client at most once, one operation
\* and one request, and not at all when its reply is the empty-input prompt, the
\* greeting, the help text, the thanks text or the fallback message, which is also
\* so when the need/want pattern matched a text that names neither naira nor ngn
\* and no later rule matched
C15_AtMostOneClientCall ==
    (ByProcessMessage /\ pc \in {"await", "done"})
        => /\ calls <= 1 /\ requests <= 1
           /\ calls = (IF call.op \in {"convert_currency", "get_rates_to_naira"} THEN 1 ELSE 0)
           /\ (Done /\ reply \in FixedReplies) => (calls = 0 /\ requests = 0 /\ call.op = "none")
           /\ (text \in NeedWantOnly)
                => /\ call.op # "convert_currency"
                   /\ (FirstRule[text] = 8 => (Done /\ reply = Return(FallbackText) /\ calls = 0))

\* the need/want pattern matched, the amount was read, and nothing was called
C15_Witness ==
    /\ Done /\ ByProcessMessage /\ text = "need convert 10 usd" /\ text \in NeedWantOnly
    /\ reply = Return(FallbackText) /\ calls = 0 /\ requests = 0

\* C16: the webhook task exists only once process_message has returned the reply
\* and the configuration of a message/send request carries a pushNotificationConfig;
\* the handler has then returned its response, with status 200 and the reply text,
\* and the response stays so whatever the webhook's request ends in, the task
\* ending with a log entry
C16_WebhookInBackground ==
    /\ (hook.pc # "none")
         => /\ a2a.pc = "returned"
            /\ a2a.method = "message/send" /\ a2a.push
            /\ pc = "done" /\ reply.kind = "return"
            /\ hook.response_text = reply.value /\ hook.original_request_id = a2a.id
            /\ a2a.response = ReplyResponse(a2a.id, reply.value)
    /\ (a2a.pc # "idle" /\ a2a.method = "execute") => hook.pc = "none"
    /\ (a2a.pc = "processing") => hook.pc = "none"
    /\ (a2a.pc = "returned" /\ pc = "done" /\ reply.kind = "return")
         => a2a.response = ReplyResponse(a2a.id, reply.value)
    /\ (hook.pc = "finished") => hook.log \in {"sent", "failed", "error"}

\* the webhook timed out after the response with the reply was returned
C16_Witness ==
    /\ hook.pc = "finished" /\ hook.log = "error"
    /\ a2a.pc = "returned" /\ a2a.response.status = 200
    /\ a2a.response.text = reply.value /\ text = "usd rate"

====
